---- MODULE Spec2Model ----
(***************************************************************************)
(* Model of NewtonStateEngine (src/model.py): the tick / predict state     *)
(* estimator.  Positions are integers; every float the code computes is    *)
(* modelled as an exact rational <<numerator, denominator>> in lowest      *)
(* terms, so the arithmetic is the real-number arithmetic of the source    *)
(* (floating-point rounding is not modelled).  Python's None is the empty  *)
(* tuple <<>> and a present value v is <<v>>.  The threat dictionary is a  *)
(* sequence of <<identifier, position>> pairs in insertion order, as a     *)
(* Python dict iterates.                                                   *)
(***************************************************************************)
EXTENDS Integers, Sequences, FiniteSets

\* ---------------------------------------------------------------- bounds
MaxPos == 2
FreeFrom == 3
FreeSignals == 2
TailSignals == 1
FreeLong == 2
MaxLongSignals == 27

Positions == 0..MaxPos
ThreatIds == {"t1", "t2"}
LongThreatIds == {"t1"}
LongThreatPositions == {0, MaxPos}
MaxSignals == FreeFrom + FreeSignals + TailSignals

\* ------------------------------------------------------ program constants
buffer_size == 25
EVASION_FACTOR == <<12, 5>>

None == <<>>
Some(v) == <<v>>
Opt(S) == {None} \cup {Some(v) : v \in S}

\* ------------------------------------------------------------- rationals
Abs(x) == IF x < 0 THEN -x ELSE x

RECURSIVE GCD(_, _)
GCD(a, b) == IF b = 0 THEN a ELSE GCD(b, a % b)

Norm(n, d) == LET g == GCD(Abs(n), d) IN <<n \div g, d \div g>>

Float(i) == <<i, 1>>
RAdd(x, y) == Norm(x[1] * y[2] + y[1] * x[2], x[2] * y[2])
RSub(x, y) == Norm(x[1] * y[2] - y[1] * x[2], x[2] * y[2])
RMul(x, y) == Norm(x[1] * y[1], x[2] * y[2])
\* division by a strictly positive rational
RDiv(x, y) == Norm(x[1] * y[2], x[2] * y[1])
RLess(x, y) == x[1] * y[2] < y[1] * x[2]
RAbs(x) == <<Abs(x[1]), x[2]>>

\* ------------------------------------------------------------- variables
\* state_buffer, last_pos, field_vectors: the estimator's fields.
\* ret: the value returned by the most recent call (None after tick).
\* History variables, read by the properties only:
\*   ingested    every signal position ever ingested, in order
\*   latest      per threat identifier, the position of its latest ingestion
\*   overwritten some identifier was ingested again with a different position
\*   last_call   the most recent call and the shape of its payload
VARIABLES state_buffer, last_pos, field_vectors, ret,
          ingested, latest, overwritten, last_call

vars == <<state_buffer, last_pos, field_vectors, ret,
          ingested, latest, overwritten, last_call>>

Init ==
    /\ state_buffer = <<>>
    /\ last_pos = 0
    /\ field_vectors = <<>>
    /\ ret = None
    /\ ingested = <<>>
    /\ latest = [id \in ThreatIds |-> None]
    /\ overwritten = FALSE
    /\ last_call = "none"

\* ------------------------------------------------------------------ tick
\* payload.get(key): None when the key is absent
Get(payload, key) == payload[key]

Payloads(signals, locs, ids) ==
    [dove_location : Opt(signals), falcon_location : Opt(locs), falcon_id : Opt(ids)]

\* variant: the eviction drops the newest sample, pop() for pop(0)
TickBufferPopLast(buf, curr_loc) ==
    IF curr_loc # None
    THEN LET appended == Append(buf, curr_loc[1])
         IN IF Len(appended) > buffer_size
            THEN SubSeq(appended, 1, Len(appended) - 1)
            ELSE appended
    ELSE buf

\* state_buffer after step 2 of tick
TickBuffer(buf, curr_loc) ==
    IF curr_loc # None
    THEN LET appended == Append(buf, curr_loc[1])
         IN IF Len(appended) > buffer_size THEN Tail(appended) ELSE appended
    ELSE buf

\* variant: last_pos assigned outside the presence test, curr_loc or 0
TickLastPosReset(last, curr_loc) ==
    IF curr_loc # None THEN curr_loc[1] ELSE 0

\* last_pos after step 2 of tick
TickLastPos(last, curr_loc) ==
    IF curr_loc # None THEN curr_loc[1] ELSE last

HasKey(fv, k) == \E i \in DOMAIN fv : fv[i][1] = k

\* variant: the observation is appended instead of replacing the entry
DictSetAppend(fv, k, v) == Append(fv, <<k, v>>)

\* d[k] = v on an insertion-ordered dict: overwrite in place or append
DictSet(fv, k, v) ==
    IF HasKey(fv, k)
    THEN [i \in DOMAIN fv |-> IF fv[i][1] = k THEN <<k, v>> ELSE fv[i]]
    ELSE Append(fv, <<k, v>>)

\* field_vectors after step 3 of tick
TickField(fv, threat_loc, threat_id) ==
    IF threat_loc # None /\ threat_id # None
    THEN DictSet(fv, threat_id[1], threat_loc[1])
    ELSE fv

Tick(payload) ==
    LET curr_loc == Get(payload, "dove_location")
        threat_loc == Get(payload, "falcon_location")
        threat_id == Get(payload, "falcon_id")
    IN /\ state_buffer' = TickBuffer(state_buffer, curr_loc)
       /\ last_pos' = TickLastPos(last_pos, curr_loc)
       /\ field_vectors' = TickField(field_vectors, threat_loc, threat_id)
       /\ ret' = None
       /\ ingested' = IF curr_loc # None THEN Append(ingested, curr_loc[1])
                      ELSE ingested
       /\ latest' = IF threat_loc # None /\ threat_id # None
                    THEN [latest EXCEPT ![threat_id[1]] = threat_loc]
                    ELSE latest
       /\ overwritten' = (overwritten \/
                          (/\ threat_loc # None /\ threat_id # None
                           /\ latest[threat_id[1]] # None
                           /\ latest[threat_id[1]] # threat_loc))
       /\ last_call' = IF curr_loc # None /\ threat_loc # None /\ threat_id # None
                       THEN "tick_full"
                       ELSE IF curr_loc = None /\ threat_loc = None /\ threat_id = None
                       THEN "tick_empty"
                       ELSE "tick_partial"

\* --------------------------------------------------------------- predict
Sign(x) == IF x > 0 THEN 1 ELSE IF x < 0 THEN -1 ELSE 0

Clip(x, lo, hi) == IF RLess(x, lo) THEN lo ELSE IF RLess(hi, x) THEN hi ELSE x

\* np.gradient of a one-dimensional array (unit spacing, edge_order 1)
Gradient(a) ==
    LET n == Len(a)
    IN [i \in 1..n |->
          IF i = 1 THEN RSub(a[2], a[1])
          ELSE IF i = n THEN RSub(a[n], a[n - 1])
          ELSE RDiv(RSub(a[i + 1], a[i - 1]), Float(2))]

RECURSIVE SeqSum(_)
SeqSum(s) == IF s = <<>> THEN Float(0) ELSE RAdd(s[1], SeqSum(Tail(s)))

\* np.var: mean of the squared deviations from the mean
Var(xs) ==
    LET n == Float(Len(xs))
        mean == RDiv(SeqSum([i \in DOMAIN xs |-> Float(xs[i])]), n)
        dev2 == [i \in DOMAIN xs |->
                   RMul(RSub(Float(xs[i]), mean), RSub(Float(xs[i]), mean))]
    IN RDiv(SeqSum(dev2), n)

\* np.argmin: the first index that holds the minimum
ArgMin(d) ==
    CHOOSE i \in DOMAIN d :
        /\ \A j \in DOMAIN d : d[i] <= d[j]
        /\ \A j \in DOMAIN d : j < i => d[i] < d[j]

PathArray(buf) == [i \in DOMAIN buf |-> Float(buf[i])]

InertialMean(buf, last) ==
    LET path_array == PathArray(buf)
        grad == Gradient(path_array)
        velocity == grad[Len(grad)]
        acceleration == Gradient(grad)[Len(grad)]
    IN RAdd(RAdd(Float(last), velocity), RMul(<<1, 2>>, acceleration))

\* list(self.field_vectors.values())
Threats(fv) == [i \in DOMAIN fv |-> fv[i][2]]

\* variant: the empty field uses the single-threat sentinel
FieldVarianceLowSentinel(threats) ==
    IF Len(threats) > 1 THEN Var(threats) ELSE Float(1)

FieldVariance(threats) ==
    IF Len(threats) > 0
    THEN IF Len(threats) > 1 THEN Var(threats) ELSE Float(1)
    ELSE Float(10)

ClosestThreatLoc(threats, last) ==
    IF Len(threats) > 0
    THEN LET dist_matrix == [i \in DOMAIN threats |-> Abs(threats[i] - last)]
         IN Some(threats[ArgMin(dist_matrix)])
    ELSE None

\* variant: the direction points toward the closest threat
RepulsionDirToward(closest_threat_loc, last) ==
    IF closest_threat_loc # None THEN Sign(closest_threat_loc[1] - last) ELSE 0

RepulsionDir(closest_threat_loc, last) ==
    IF closest_threat_loc # None THEN Sign(last - closest_threat_loc[1]) ELSE 0

\* variant: np.clip left out
CohesionIndexUnclipped(field_variance) ==
    RDiv(Float(1), RAdd(field_variance, <<1, 10>>))

CohesionIndex(field_variance) ==
    Clip(RDiv(Float(1), RAdd(field_variance, <<1, 10>>)), Float(0), Float(1))

\* variant: the chaos reserve is not subtracted from w_a
WeightsNoReserve(cohesion_index) ==
    LET w_b == RMul(cohesion_index, <<4, 5>>)
        w_c == <<1, 20>>
        w_a == RSub(Float(1), w_b)
    IN IF RLess(w_a, Float(0))
       THEN [w_a |-> Float(0), w_b |-> RSub(Float(1), w_c), w_c |-> w_c]
       ELSE [w_a |-> w_a, w_b |-> w_b, w_c |-> w_c]

Weights(cohesion_index) ==
    LET w_b == RMul(cohesion_index, <<4, 5>>)
        w_c == <<1, 20>>
        w_a == RSub(RSub(Float(1), w_b), w_c)
    IN IF RLess(w_a, Float(0))
       THEN [w_a |-> Float(0), w_b |-> RSub(Float(1), w_c), w_c |-> w_c]
       ELSE [w_a |-> w_a, w_b |-> w_b, w_c |-> w_c]

Norm_(loc, scale) ==
    [type |-> "scipy", name |-> "norm", params |-> [loc |-> loc, scale |-> scale]]

Component(loc, scale, weight) == [density |-> Norm_(loc, scale), weight |-> weight]

Warmup(last) == [density |-> Norm_(last, Float(2)), weight |-> Float(1)]

Mixture(buf, last, fv) ==
    LET inertial_mean == InertialMean(buf, last)
        threats == Threats(fv)
        field_variance == FieldVariance(threats)
        closest_threat_loc == ClosestThreatLoc(threats, last)
        repulsion_dir == RepulsionDir(closest_threat_loc, last)
        loc_a == inertial_mean
        scale_a == RAdd(<<1, 5>>, RMul(<<1, 10>>, field_variance))
        loc_b == IF closest_threat_loc # None
                 THEN RAdd(Float(last), RMul(EVASION_FACTOR, Float(repulsion_dir)))
                 ELSE loc_a
        scale_b == IF closest_threat_loc # None THEN <<3, 20>> ELSE scale_a
        loc_c == Float(last)
        scale_c == Float(4)
        w == Weights(CohesionIndex(field_variance))
    IN [density |-> [type |-> "mixture",
                     components |-> << Component(loc_a, scale_a, w.w_a),
                                       Component(loc_b, scale_b, w.w_b),
                                       Component(loc_c, scale_c, w.w_c) >>],
        weight |-> Float(1)]

\* variant: the warmup test is off by one
PredictOfShortWarmup(buf, last, fv) ==
    IF Len(buf) < 4 THEN Warmup(last) ELSE Mixture(buf, last, fv)

PredictOf(buf, last, fv) ==
    IF Len(buf) < 5 THEN Warmup(last) ELSE Mixture(buf, last, fv)

\* variant: predict consumes the oldest sample of a warm history
PredictConsumes ==
    /\ ret' = Some(PredictOf(state_buffer, last_pos, field_vectors))
    /\ last_call' = "predict"
    /\ state_buffer' = IF Len(state_buffer) < 5 THEN state_buffer
                       ELSE Tail(state_buffer)
    /\ UNCHANGED <<last_pos, field_vectors, ingested, latest, overwritten>>

Predict ==
    /\ ret' = Some(PredictOf(state_buffer, last_pos, field_vectors))
    /\ last_call' = "predict"
    /\ UNCHANGED <<state_buffer, last_pos, field_vectors, ingested, latest, overwritten>>

\* ------------------------------------------------------- specifications
Ramp(n) == n % (MaxPos + 1)

SignalInputs(n) ==
    IF n >= MaxSignals THEN {}
    ELSE IF n >= FreeFrom /\ n < FreeFrom + FreeSignals THEN Positions
    ELSE {Ramp(n)}

LongSignalInputs(n) ==
    IF n >= MaxLongSignals THEN {}
    ELSE IF n < FreeLong THEN Positions
    ELSE {Ramp(n)}

Next ==
    \/ \E payload \in Payloads(SignalInputs(Len(ingested)), Positions, ThreatIds) :
           Tick(payload)
    \/ Predict

Spec == Init /\ [][Next]_vars

NextLong ==
    \/ \E payload \in Payloads(LongSignalInputs(Len(ingested)),
                               LongThreatPositions, LongThreatIds) :
           Tick(payload)
    \/ Predict

SpecLong == Init /\ [][NextLong]_vars

\* ---------------------------------------------------------- properties
Min(a, b) == IF a < b THEN a ELSE b
LastN(s, n) == SubSeq(s, Len(s) - n + 1, Len(s))
LastIngested == IF ingested = <<>> THEN 0 ELSE ingested[Len(ingested)]
Warm == Len(state_buffer) >= 5
Returned == ret # None
CompA == ret[1].density.components[1]
CompB == ret[1].density.components[2]
CompC == ret[1].density.components[3]
RLeq(x, y) == ~RLess(y, x)
Dist(i) == Abs(field_vectors[i][2] - last_pos)
EstimatorState == <<state_buffer, last_pos, field_vectors>>

\* C1: the signal history is the last min(N, 25) of the N ingested signal
\* positions, in ingestion order; its length never exceeds the capacity.
BoundedHistory ==
    /\ Len(state_buffer) <= buffer_size
    /\ state_buffer = LastN(ingested, Min(Len(ingested), buffer_size))

BoundedHistoryWitness ==
    /\ Len(ingested) = buffer_size + 2
    /\ Len(state_buffer) = buffer_size
    /\ state_buffer[1] # ingested[1]
    /\ Returned

\* C2: with fewer than 5 samples predict returns one normal density located
\* at the last ingested signal position (0 if none), scale 2.0, weight 1.0,
\* whatever the threat field holds.
WarmupInvariant ==
    (Returned /\ Len(state_buffer) < 5) =>
        ret[1] = [density |-> [type |-> "scipy", name |-> "norm",
                               params |-> [loc |-> LastIngested, scale |-> <<2, 1>>]],
                  weight |-> <<1, 1>>]

WarmupInvariantWitness ==
    /\ Returned
    /\ Len(state_buffer) = 4
    /\ last_pos # 0
    /\ Len(field_vectors) = 2

\* C3: with at least 5 samples the three weights returned by predict are
\* each non-negative and sum to 1, for every threat-field content.
WeightConservation ==
    (Returned /\ Warm) =>
        /\ RLeq(Float(0), CompA.weight)
        /\ RLeq(Float(0), CompB.weight)
        /\ RLeq(Float(0), CompC.weight)
        /\ RAdd(RAdd(CompA.weight, CompB.weight), CompC.weight) = <<1, 1>>

WeightConservationWitness ==
    /\ Returned /\ Warm
    /\ Len(field_vectors) = 2
    /\ field_vectors[1][2] # field_vectors[2][2]
    /\ CompB.weight # <<4, 5>>

\* C4: the threat field holds exactly one entry per threat identifier ever
\* ingested with a position, and the entry holds the position of the most
\* recent such tick for that identifier.
ThreatOverwrite ==
    /\ \A id \in ThreatIds :
          Cardinality({i \in DOMAIN field_vectors : field_vectors[i][1] = id})
              = (IF latest[id] = None THEN 0 ELSE 1)
    /\ \A i \in DOMAIN field_vectors :
          latest[field_vectors[i][1]] = Some(field_vectors[i][2])

ThreatOverwriteWitness ==
    /\ overwritten
    /\ Len(field_vectors) = 2
    /\ last_call \in {"tick_full", "tick_partial"}

\* C5: predict depends only on the signal history, the last known position
\* and the identifier-to-position mapping: every insertion order of the same
\* mapping gives the prediction that was returned.
Reorderings(fv) ==
    {s \in [DOMAIN fv -> {fv[i] : i \in DOMAIN fv}] :
        \A i \in DOMAIN fv : \E j \in DOMAIN fv : s[j] = fv[i]}

DeterministicGivenMapping ==
    Returned =>
        \A other \in Reorderings(field_vectors) :
            PredictOf(state_buffer, last_pos, other) = ret[1]

\* C6: warm history and empty threat field: component A has scale 1.2,
\* component B has A's location and scale, weight_B = 0.8/10.1,
\* weight_C = 0.05 and weight_A = 1 - weight_B - weight_C.
NoThreatSentinel ==
    (Returned /\ Warm /\ field_vectors = <<>>) =>
        /\ CompA.density.params.scale = <<6, 5>>
        /\ CompB.density.params = CompA.density.params
        /\ CompB.weight = <<8, 101>>
        /\ CompC.weight = <<1, 20>>
        /\ CompA.weight = <<1759, 2020>>

NoThreatSentinelWitness ==
    /\ Returned /\ Warm
    /\ field_vectors = <<>>
    /\ Len(state_buffer) = 6

\* C7: warm history and non-empty threat field: component B has scale 0.15
\* and location last_pos + 2.4 * d, d the sign of last_pos minus the position
\* of a closest threat; a closest threat at last_pos centres B at last_pos.
EvasiveComponent ==
    (Returned /\ Warm /\ field_vectors # <<>>) =>
        /\ CompB.density.params.scale = <<3, 20>>
        /\ \E i \in DOMAIN field_vectors :
              /\ \A j \in DOMAIN field_vectors : Dist(i) <= Dist(j)
              /\ LET d == IF last_pos > field_vectors[i][2] THEN 1
                          ELSE IF last_pos < field_vectors[i][2] THEN -1
                          ELSE 0
                 IN CompB.density.params.loc
                        = Norm(5 * last_pos + 12 * d, 5)
        /\ (\E i \in DOMAIN field_vectors : Dist(i) = 0) =>
              CompB.density.params.loc = <<last_pos, 1>>

EvasiveComponentWitness ==
    /\ Returned /\ Warm
    /\ \E i \in DOMAIN field_vectors : Dist(i) = 0
    /\ \E i \in DOMAIN field_vectors : Dist(i) # 0

\* C8: a tick whose payload has no signal position leaves the history and
\* the last known position unchanged; one that lacks the threat position or
\* the threat identifier leaves the threat field unchanged; an empty payload
\* leaves the whole estimator state unchanged.
AbsentFieldsNoUpdate ==
    [][\A payload \in Payloads(Positions, LongThreatPositions, LongThreatIds) :
          Tick(payload) =>
             /\ payload.dove_location = None =>
                   UNCHANGED <<state_buffer, last_pos>>
             /\ (payload.falcon_location = None \/ payload.falcon_id = None) =>
                   UNCHANGED field_vectors]_vars

AbsentFieldsNoUpdateWitness ==
    /\ last_call = "tick_empty"
    /\ Len(state_buffer) = buffer_size
    /\ last_pos # 0
    /\ field_vectors # <<>>

\* C9: predict leaves the signal history, the last known position and the
\* threat field unchanged, and a predict that directly follows a predict
\* returns the same result.
PredictReadOnly ==
    [][last_call' = "predict" =>
          /\ UNCHANGED EstimatorState
          /\ (last_call = "predict" => ret' = ret)]_vars

PredictReadOnlyWitness ==
    /\ last_call = "predict"
    /\ Len(state_buffer) = 5
    /\ Len(field_vectors) = 1

\* C10: the clamp branch is never taken: in every warm state weight_B is at
\* most 0.8 and weight_A at least 0.15; weight_A is never 0 and weight_B
\* never 0.95.
ClampUnreachable ==
    (Returned /\ Warm) =>
        /\ RLeq(CompB.weight, <<4, 5>>)
        /\ RLeq(<<3, 20>>, CompA.weight)
        /\ CompA.weight # <<0, 1>>
        /\ CompB.weight # <<19, 20>>

ClampUnreachableWitness ==
    /\ Returned /\ Warm
    /\ Len(field_vectors) = 2
    /\ field_vectors[1][2] = field_vectors[2][2]
    /\ CompA.weight = <<3, 20>>

====
